---- MODULE Spec2Model ----
(***************************************************************************)
(* Model of tools/inject_exif.py: the per-file metadata injector           *)
(* inject_exif(image_path) and the batch driver main().                    *)
(*                                                                         *)
(* Text is modelled as sequences of Unicode code points, bytes as          *)
(* sequences of numbers 0..255.  The file system, piexif, PIL and hashlib  *)
(* are the environment: their observable behaviour (what they return, what *)
(* they raise, what they write) is modelled by the operators of the first  *)
(* half of the module; the second half is the control flow of the script.  *)
(***************************************************************************)
EXTENDS Integers, Sequences, FiniteSets, TLC

\* Bounds of the model.
MaxFiles == 3   \* most directory entries in an initial file system
MaxRuns == 2    \* most invocations of main() in one behaviour

(***************************************************************************)
(* Text and bytes                                                          *)
(***************************************************************************)

\* "docs/photography" (only compared and printed, kept as a string)
PHOTOS_DIR == "docs/photography"

\* "© 2026 Chemachin"
COPYRIGHT == <<169, 32, 50, 48, 50, 54, 32, 67, 104, 101, 109, 97, 99, 104, 105, 110>>

\* "Chemachin"
CREATOR == <<67, 104, 101, 109, 97, 99, 104, 105, 110>>

\* "*_hu_*.jpg"
PATTERN == <<42, 95, 104, 117, 95, 42, 46, 106, 112, 103>>

\* "sha256:"
ID_PREFIX == <<115, 104, 97, 50, 53, 54, 58>>

\* Tags of piexif.ImageIFD / piexif.ExifIFD the script writes.
Copyright == 33432
Artist == 315
UserComment == 37510

\* JPEG quality of the re-save.
QUALITY == 70

\* Number of hex characters kept of the digest.
HASH_CHARS == 16

\* str.encode('utf-8') of one code point (below U+0800).
utf8(cp) ==
    IF cp < 128 THEN <<cp>> ELSE <<192 + (cp \div 64), 128 + (cp % 64)>>

RECURSIVE encodeRange(_, _, _)
encodeRange(s, lo, hi) ==
    IF lo > hi THEN <<>>
    ELSE IF lo = hi THEN utf8(s[lo])
    ELSE LET mid == (lo + hi) \div 2
         IN encodeRange(s, lo, mid) \o encodeRange(s, mid + 1, hi)

\* str.encode('utf-8')
encode(s) == encodeRange(s, 1, Len(s))

\* Lexicographic order of two texts by code point (str.__lt__).
RECURSIVE LexLess(_, _)
LexLess(a, b) ==
    IF b = <<>> THEN FALSE
    ELSE IF a = <<>> THEN TRUE
    ELSE IF Head(a) # Head(b) THEN Head(a) < Head(b)
    ELSE LexLess(Tail(a), Tail(b))

\* fnmatch of a name against a pattern whose only wildcard is '*' (42).
RECURSIVE fnmatch(_, _)
fnmatch(s, p) ==
    IF p = <<>> THEN s = <<>>
    ELSE IF Head(p) = 42
         THEN fnmatch(s, Tail(p)) \/ (s # <<>> /\ fnmatch(Tail(s), p))
         ELSE s # <<>> /\ Head(s) = Head(p) /\ fnmatch(Tail(s), Tail(p))

(***************************************************************************)
(* hashlib.sha256(...).hexdigest(): a deterministic function from bytes to *)
(* 64 lowercase hex characters.  It stands in for SHA-256, of which only   *)
(* determinism, the output alphabet and length, and sensitivity to every   *)
(* input byte are used: the bytes are absorbed into four 16-bit words, each *)
(* a position-weighted sum over all the bytes, and the 64 characters are   *)
(* the four words followed by twelve words mixed from them.                *)
(***************************************************************************)
LaneWeight(k, i) == ((i * (2 * k + 29) + k * k) % 251) + 1

\* The weighted term of byte i (nothing beyond the end of the input).
Term(k, bytes, i) == IF i <= Len(bytes) THEN (bytes[i] + 1) * LaneWeight(k, i) ELSE 0

\* The weighted sum of the block of eight bytes that ends at byte hi.
BlockSum(k, bytes, hi) ==
    Term(k, bytes, hi - 7) + Term(k, bytes, hi - 6) + Term(k, bytes, hi - 5)
    + Term(k, bytes, hi - 4) + Term(k, bytes, hi - 3) + Term(k, bytes, hi - 2)
    + Term(k, bytes, hi - 1) + Term(k, bytes, hi)

\* The weighted sum of all bytes, taken block by block from block b on.
RECURSIVE LaneSum(_, _, _)
LaneSum(k, bytes, b) ==
    IF 8 * (b - 1) >= Len(bytes) THEN 0
    ELSE (BlockSum(k, bytes, 8 * b) + LaneSum(k, bytes, b + 1)) % 65536

Lane(k, bytes) == (4001 + 977 * k + Len(bytes) + LaneSum(k, bytes, 1)) % 65536

HexChar(d) == IF d < 10 THEN 48 + d ELSE 87 + d

\* The four hex characters of a 16-bit word, most significant first.
LaneHex[v \in 0..65535] ==
    <<HexChar(v \div 4096), HexChar((v \div 256) % 16),
      HexChar((v \div 16) % 16), HexChar(v % 16)>>

\* Word j (5..16) of the digest, mixed from the four absorbed words.
Mixed(w, j) == LaneHex[(w[(j % 4) + 1] * (2 * j + 1) + w[((j + 1) % 4) + 1] + j) % 65536]

\* The 64 characters of the digest whose absorbed words are w.
Digest[w \in (0..65535) \X (0..65535) \X (0..65535) \X (0..65535)] ==
    LaneHex[w[1]] \o LaneHex[w[2]] \o LaneHex[w[3]] \o LaneHex[w[4]]
    \o Mixed(w, 5) \o Mixed(w, 6) \o Mixed(w, 7) \o Mixed(w, 8)
    \o Mixed(w, 9) \o Mixed(w, 10) \o Mixed(w, 11) \o Mixed(w, 12)
    \o Mixed(w, 13) \o Mixed(w, 14) \o Mixed(w, 15) \o Mixed(w, 16)

hexdigest(bytes) == Digest[<<Lane(1, bytes), Lane(2, bytes), Lane(3, bytes), Lane(4, bytes)>>]

\* Python slice s[:n]
Take(s, n) == SubSeq(s, 1, IF n < Len(s) THEN n ELSE Len(s))

\* The digest without the [:16] slice.
ImageHashUntruncated(bytes) == hexdigest(bytes)

\* hashlib.sha256(f.read()).hexdigest()[:16]
ImageHash(bytes) == Take(hexdigest(bytes), HASH_CHARS)

(***************************************************************************)
(* The metadata container (piexif's exif_dict): for each namespace (IFD) a *)
(* dict from tag to value.  A value is [ty |-> "int", v |-> n] or          *)
(* [ty |-> "bytes", v |-> <<b1, ...>>].                                    *)
(***************************************************************************)
IFDS == <<"0th", "Exif", "GPS", "1st">>

IfdNames == {IFDS[i] : i \in 1..Len(IFDS)}

EmptyIfd == [t \in {} |-> 0]

\* {"0th": {}, "Exif": {}, "GPS": {}, "1st": {}}
EmptyExifDict == [ns \in IfdNames |-> EmptyIfd]

\* d[k] = v on a Python dict
DictSet(d, k, v) == [x \in (DOMAIN d) \cup {k} |-> IF x = k THEN v ELSE d[x]]

BytesVal(b) == [ty |-> "bytes", v |-> b]

IntVal(n) == [ty |-> "int", v |-> n]

\* The value type piexif's TAGS table gives a tag (the tags the model uses).
TagType(tag) ==
    CASE tag = 274 -> "Short"
      [] tag = 41729 -> "Undefined"
      [] tag = UserComment -> "Undefined"
      [] OTHER -> "Ascii"

\* piexif.dump accepts an int for a Short tag and bytes for Ascii/Undefined.
Dumpable(tag, val) ==
    IF TagType(tag) = "Short" THEN val.ty = "int" ELSE val.ty = "bytes"

\* The tags of an IFD in ascending order.
RECURSIVE SortedTags(_)
SortedTags(S) ==
    IF S = {} THEN <<>>
    ELSE LET m == CHOOSE x \in S : \A y \in S : x <= y
         IN <<m>> \o SortedTags(S \ {m})

RECURSIVE IfdEntries(_, _, _)
IfdEntries(i, ifd, tags) ==
    IF tags = <<>> THEN <<>>
    ELSE <<<<i, Head(tags), ifd[Head(tags)]>>>> \o IfdEntries(i, ifd, Tail(tags))

RECURSIVE DumpFrom(_, _)
DumpFrom(d, i) ==
    IF i > Len(IFDS) THEN <<>>
    ELSE IfdEntries(i, d[IFDS[i]], SortedTags(DOMAIN d[IFDS[i]])) \o DumpFrom(d, i + 1)

\* piexif.dump raises ValueError on a value of the wrong type.
DumpRaises(d) ==
    \E ns \in IfdNames : \E t \in DOMAIN d[ns] : ~Dumpable(t, d[ns][t])

\* piexif.dump(exif_dict): the serialized container, a sequence of
\* <<ifd index, tag, value>> entries.
dump(d) == DumpFrom(d, 1)

\* An entry piexif can parse names one of the IFDs.
WellFormed(e) == e[1] \in 1..Len(IFDS)

RECURSIVE LoadFrom(_, _, _)
LoadFrom(blob, i, d) ==
    IF i > Len(blob) THEN d
    ELSE LET e == blob[i]
             ns == IFDS[e[1]]
         IN LoadFrom(blob, i + 1, [d EXCEPT ![ns] = DictSet(d[ns], e[2], e[3])])

\* The container a serialized blob parses to (when every entry parses).
ParseBlob(blob) == LoadFrom(blob, 1, EmptyExifDict)

BlobParses(blob) == \A i \in 1..Len(blob) : WellFormed(blob[i])

\* The bytes of a serialized container inside the file.
EntryBytes(e) ==
    <<e[1], e[2] \div 256, e[2] % 256>>
    \o (IF e[3].ty = "int" THEN <<1, e[3].v>> ELSE <<2, Len(e[3].v)>> \o e[3].v)

RECURSIVE BlobBytes(_, _)
BlobBytes(blob, i) ==
    IF i > Len(blob) THEN <<>> ELSE EntryBytes(blob[i]) \o BlobBytes(blob, i + 1)

(***************************************************************************)
(* Files.  A file is [fmt, mode, pix, q, blob, perm]: its format ("jpeg",  *)
(* "png" or "zero" for a zero-byte file), pixel mode, pixel content,       *)
(* encoding quality, serialized metadata container and access rights       *)
(* ("rw", "ro" read-only, "none" unreadable).                              *)
(***************************************************************************)
ZeroFile(perm) ==
    [fmt |-> "zero", mode |-> "", pix |-> 0, q |-> 0, blob |-> <<>>, perm |-> perm]

\* The raw bytes open(path, 'rb').read() returns.
Raw(f) ==
    CASE f.fmt = "zero" -> <<>>
      [] f.fmt = "png" -> <<137, 80, 78, 71, f.pix>>
      [] OTHER ->
            <<255, 216>>
            \o (IF f.blob = <<>> THEN <<>> ELSE <<255, 225>> \o BlobBytes(f.blob, 1))
            \o <<255, 219, f.q, f.pix, 255, 217>>

JpegFile(pix, blob, perm) ==
    [fmt |-> "jpeg", mode |-> "RGB", pix |-> pix, q |-> 90, blob |-> blob, perm |-> perm]

\* Orientation = 6, Artist = "Al", Exif.UserComment = "old", GPS tag 1 = "N"
CameraBlob ==
    << <<1, 274, IntVal(6)>>, <<1, Artist, BytesVal(<<65, 108>>)>>,
       <<2, UserComment, BytesVal(<<111, 108, 100>>)>>, <<3, 1, BytesVal(<<78>>)>> >>

\* Orientation = 6 followed by an entry piexif cannot parse
CorruptBlob == << <<1, 274, IntVal(6)>>, <<9, 0, IntVal(0)>> >>

\* Orientation = 6 and an Undefined-typed tag (SceneType) holding an int
UndumpableBlob == << <<1, 274, IntVal(6)>>, <<2, 41729, IntVal(1)>> >>

\* The files a directory entry may initially be.
Kinds ==
    { JpegFile(1, <<>>, "rw"),
      JpegFile(2, CameraBlob, "rw"),
      JpegFile(3, CorruptBlob, "rw"),
      JpegFile(4, UndumpableBlob, "rw"),
      JpegFile(6, <<>>, "none"),
      ZeroFile("rw"),
      [fmt |-> "png", mode |-> "RGBA", pix |-> 7, q |-> 0, blob |-> <<>>, perm |-> "rw"] }

\* piexif.load(path): the exception it raises, "" when it returns.
LoadRaises(f) ==
    CASE f.perm = "none" -> "PermissionError"
      [] f.fmt # "jpeg" -> "InvalidImageDataError"
      [] ~BlobParses(f.blob) -> "struct.error"
      [] OTHER -> ""

\* piexif.load(path) when it returns.
load(f) == ParseBlob(f.blob)

\* open(path, 'rb'): the exception it raises, "" when it returns.
OpenRaises(f) == IF f.perm = "none" THEN "PermissionError" ELSE ""

\* Image.open(path): the exception it raises, "" when it returns.
ImageOpenRaises(f) ==
    CASE f.perm = "none" -> "PermissionError"
      [] f.fmt = "zero" -> "UnidentifiedImageError"
      [] OTHER -> ""

\* Image.open(path) when it returns: the decoded image.
ImageOpen(f) == [pix |-> f.pix, mode |-> f.mode]

\* img.save(path, "jpeg", ...): the exception it raises, "" when it returns.
\* A read-only file cannot be opened for writing; the JPEG encoder rejects
\* modes with an alpha channel after the file has been opened.
SaveRaises(img, f) ==
    CASE f.perm # "rw" -> "PermissionError"
      [] img.mode # "RGB" -> "OSError"
      [] OTHER -> ""

\* A save that writes somewhere else: the file at the path stays as it was.
SaveElsewhere(img, f, q, blob) == f

\* The file at the path after img.save(path, "jpeg", quality=q, exif=blob).
\* The file is opened "w+b" (truncated) before the encoder runs.
SaveResult(img, f, q, blob) ==
    CASE f.perm # "rw" -> f
      [] img.mode # "RGB" -> ZeroFile(f.perm)
      [] OTHER -> [fmt |-> "jpeg", mode |-> img.mode, pix |-> img.pix, q |-> q,
                   blob |-> blob, perm |-> f.perm]

(***************************************************************************)
(* The directory                                                           *)
(***************************************************************************)

\* "B_hu_1.jpg", "a_hu_10.jpg", "a_hu_2.jpg" match the pattern;
\* "c_hu.jpg" and "d_hu_.png" do not.
Names ==
    { <<66, 95, 104, 117, 95, 49, 46, 106, 112, 103>>,
      <<97, 95, 104, 117, 95, 49, 48, 46, 106, 112, 103>>,
      <<97, 95, 104, 117, 95, 50, 46, 106, 112, 103>>,
      <<99, 95, 104, 117, 46, 106, 112, 103>>,
      <<100, 95, 104, 117, 95, 46, 112, 110, 103>> }

NoFiles == [n \in {} |-> 0]

\* The directories a run may find: at most MaxFiles entries; the entries
\* the pattern does not select are ordinary JPEG files.
FileSystems ==
    { d \in UNION { [S -> Kinds] : S \in { T \in SUBSET Names : Cardinality(T) <= MaxFiles } } :
        \A n \in DOMAIN d : ~fnmatch(n, PATTERN) => d[n] = JpegFile(2, CameraBlob, "rw") }

\* PHOTOS_DIR.glob("*_hu_*.jpg"): the matching entries, in no particular order.
glob(d, pattern) == { n \in DOMAIN d : fnmatch(n, pattern) }

\* The matches in the opposite order: what a missing or reversed sort yields.
RECURSIVE unsorted(_)
unsorted(S) ==
    IF S = {} THEN <<>>
    ELSE LET m == CHOOSE x \in S : \A y \in S \ {x} : LexLess(y, x)
         IN <<m>> \o unsorted(S \ {m})

\* sorted(paths): ascending by name.
RECURSIVE sorted(_)
sorted(S) ==
    IF S = {} THEN <<>>
    ELSE LET m == CHOOSE x \in S : \A y \in S \ {x} : LexLess(x, y)
         IN <<m>> \o sorted(S \ {m})

(***************************************************************************)
(* Console output: each printed line is a record                           *)
(* [glyph, text, idx, total, failed, name, result].                        *)
(***************************************************************************)
NoResult == [id |-> <<>>, err |-> ""]

PrintedLine(glyph, text, idx, total, nfailed, name, result) ==
    [glyph |-> glyph, text |-> text, idx |-> idx, total |-> total,
     failed |-> nfailed, name |-> name, result |-> result]

\* f"❌ Directory {PHOTOS_DIR} not found"
MsgNotFound ==
    PrintedLine("cross", <<"Directory ", PHOTOS_DIR, " not found">>, 0, 0, 0, <<>>, NoResult)

\* The no-match report reusing the missing-directory message.
MsgNoImagesAsNotFound == MsgNotFound

\* f"❌ No images found in {PHOTOS_DIR}"
MsgNoImages ==
    PrintedLine("cross", <<"No images found in ", PHOTOS_DIR>>, 0, 0, 0, <<>>, NoResult)

\* f"📸 Found {len(jpg_files)} images to process\n"
MsgFound(n) ==
    PrintedLine("camera", <<"Found ", " images to process">>, 0, n, 0, <<>>, NoResult)

\* f"✓ [{idx:2d}/{len(jpg_files)}] {image_path.name:<40} ID: {result}"
MsgOk(i, n, name, result) ==
    PrintedLine("check", <<"ID: ">>, i, n, 0, name, result)

\* f"✗ [{idx:2d}/{len(jpg_files)}] {image_path.name:<40} Error: {result}"
MsgFail(i, n, name, result) ==
    PrintedLine("ballot", <<"Error: ">>, i, n, 0, name, result)

\* f"Completed: {success}/{len(jpg_files)} ✓ | {failed} ✗" (idx holds success)
MsgSummary(nsuccess, n, nfailed) ==
    PrintedLine("rule", <<"Completed: ">>, nsuccess, n, nfailed, <<>>, NoResult)

(***************************************************************************)
(* State                                                                   *)
(***************************************************************************)
VARIABLES
    dirExists,   \* PHOTOS_DIR.exists()
    fs,          \* the directory: name -> file
    fsStart,     \* history: the directory as it was when this run began
    pc,          \* position of the control flow
    run,         \* invocations of main() so far
    jpg_files,   \* main: the sorted matches
    idx,         \* main: loop index (0 before the first iteration)
    image_path,  \* main/inject_exif: the current path
    success,     \* main: counter
    failed,      \* main: counter
    out,         \* lines printed by this run
    exif_dict,   \* inject_exif local
    image_hash,  \* inject_exif local
    image_id,    \* inject_exif local
    exif_bytes,  \* inject_exif local
    img,         \* inject_exif local
    ret,         \* <<success_flag, result>> returned by inject_exif
    calls,       \* history: paths inject_exif was called with in this run
    rets,        \* history: what each of those calls returned
    accessLog,   \* history: file operations of this run, <<path, operation>>
    pre,         \* history: the current file as it was when the call began
    raisedAt,    \* history: the step of the current call that raised ("" if none)
    ids          \* history: path -> identifiers returned by successful calls

vars ==
    <<dirExists, fs, fsStart, pc, run, jpg_files, idx, image_path, success, failed, out,
      exif_dict, image_hash, image_id, exif_bytes, img, ret, calls, rets,
      accessLog, pre, raisedAt, ids>>

mainLocals == <<jpg_files, idx, success, failed>>

injectLocals == <<exif_dict, image_hash, image_id, exif_bytes, img>>

NoImage == [pix |-> 0, mode |-> ""]

NoRet == <<FALSE, NoResult>>

Terminal == {"exit_missing", "exit_nomatch", "exit_summary", "aborted"}

InjectSteps == {"load", "hash", "set", "dump", "open", "save"}

Init ==
    /\ dirExists \in BOOLEAN
    /\ fs \in (IF dirExists THEN FileSystems ELSE {NoFiles})
    /\ fsStart = fs
    /\ pc = "start"
    /\ run = 1
    /\ jpg_files = <<>>
    /\ idx = 0
    /\ image_path = <<>>
    /\ success = 0
    /\ failed = 0
    /\ out = <<>>
    /\ exif_dict = EmptyExifDict
    /\ image_hash = <<>>
    /\ image_id = <<>>
    /\ exif_bytes = <<>>
    /\ img = NoImage
    /\ ret = NoRet
    /\ calls = <<>>
    /\ rets = <<>>
    /\ accessLog = <<>>
    /\ pre = ZeroFile("rw")
    /\ raisedAt = ""
    /\ ids = [n \in DOMAIN fs |-> <<>>]

(***************************************************************************)
(* inject_exif(image_path)                                                 *)
(***************************************************************************)

\* A handler that names only OSError: `except OSError as e`.
IsOSError(e) == e \in {"PermissionError", "OSError"}

\* The exceptions `except Exception` catches: every exception the library
\* calls of the function raise derives from Exception.
IsException(e) ==
    e \in {"PermissionError", "InvalidImageDataError", "struct.error",
           "UnidentifiedImageError", "ValueError", "OSError"}

\* lines 50-51: `except Exception as e: return False, str(e)`; anything the
\* clause does not catch propagates out of main().
Except(step, e) ==
    /\ raisedAt' = step
    /\ IF IsException(e)
       THEN /\ ret' = <<FALSE, [id |-> <<>>, err |-> e]>>
            /\ rets' = Append(rets, ret')
            /\ pc' = "tally"
       ELSE /\ ret' = ret
            /\ rets' = rets
            /\ pc' = "aborted"

Access(op) == accessLog' = Append(accessLog, <<image_path, op>>)

\* lines 23-26: load the existing container, or start an empty one whatever
\* piexif.load raised (bare except).
Load ==
    /\ pc = "load"
    /\ exif_dict' = IF LoadRaises(fs[image_path]) = ""
                    THEN load(fs[image_path])
                    ELSE EmptyExifDict
    /\ Access("load")
    /\ pc' = "hash"
    /\ UNCHANGED <<dirExists, fs, fsStart, run, mainLocals, image_path, out, image_hash,
                   image_id, exif_bytes, img, ret, calls, rets, pre, raisedAt, ids>>

\* The read with the file opened in mode 'w+b': the file is truncated first.
HashTruncating ==
    /\ pc = "hash"
    /\ Access("read")
    /\ fs' = [fs EXCEPT ![image_path] = IF @.perm = "rw" THEN ZeroFile(@.perm) ELSE @]
    /\ IF fs[image_path].perm # "rw"
       THEN /\ Except("hash", "PermissionError")
            /\ UNCHANGED image_hash
       ELSE /\ \E data \in {Raw(fs'[image_path])} : image_hash' = ImageHash(data)
            /\ pc' = "set"
            /\ UNCHANGED <<ret, rets, raisedAt>>
    /\ UNCHANGED <<dirExists, fsStart, run, mainLocals, image_path, out,
                   exif_dict, image_id, exif_bytes, img, calls, pre, ids>>

\* lines 29-30: read the raw bytes and keep the first 16 hex characters of
\* their digest.
Hash ==
    /\ pc = "hash"
    /\ Access("read")
    /\ IF OpenRaises(fs[image_path]) # ""
       THEN /\ Except("hash", OpenRaises(fs[image_path]))
            /\ UNCHANGED image_hash
       ELSE /\ \E data \in {Raw(fs[image_path])} : image_hash' = ImageHash(data)
            /\ pc' = "set"
            /\ UNCHANGED <<ret, rets, raisedAt>>
    /\ UNCHANGED <<dirExists, fs, fsStart, run, mainLocals, image_path, out,
                   exif_dict, image_id, exif_bytes, img, calls, pre, ids>>

\* The three fields assigned as fresh namespaces instead of into the loaded ones.
SetFieldsFresh ==
    /\ pc = "set"
    /\ image_id' = ID_PREFIX \o image_hash
    /\ exif_dict' =
         [exif_dict EXCEPT
            !["0th"] = DictSet(DictSet(EmptyIfd, Copyright, BytesVal(encode(COPYRIGHT))),
                               Artist, BytesVal(encode(CREATOR))),
            !["Exif"] = DictSet(EmptyIfd, UserComment, BytesVal(encode(image_id')))]
    /\ pc' = "dump"
    /\ UNCHANGED <<dirExists, fs, fsStart, run, mainLocals, image_path, out, image_hash,
                   exif_bytes, img, ret, calls, rets, accessLog, pre, raisedAt, ids>>

\* lines 33-40: overwrite Copyright, Artist and UserComment.
SetFields ==
    /\ pc = "set"
    /\ image_id' = ID_PREFIX \o image_hash
    /\ exif_dict' =
         [exif_dict EXCEPT
            !["0th"] = DictSet(DictSet(@, Copyright, BytesVal(encode(COPYRIGHT))),
                               Artist, BytesVal(encode(CREATOR))),
            !["Exif"] = DictSet(@, UserComment, BytesVal(encode(image_id')))]
    /\ pc' = "dump"
    /\ UNCHANGED <<dirExists, fs, fsStart, run, mainLocals, image_path, out, image_hash,
                   exif_bytes, img, ret, calls, rets, accessLog, pre, raisedAt, ids>>

\* line 43: exif_bytes = piexif.dump(exif_dict)
Dump ==
    /\ pc = "dump"
    /\ IF DumpRaises(exif_dict)
       THEN /\ Except("dump", "ValueError")
            /\ UNCHANGED exif_bytes
       ELSE /\ exif_bytes' = dump(exif_dict)
            /\ pc' = "open"
            /\ UNCHANGED <<ret, rets, raisedAt>>
    /\ UNCHANGED <<dirExists, fs, fsStart, run, mainLocals, image_path, out,
                   exif_dict, image_hash, image_id, img, calls, accessLog, pre, ids>>

\* line 46: img = Image.open(image_path)
Open ==
    /\ pc = "open"
    /\ Access("open")
    /\ IF ImageOpenRaises(fs[image_path]) # ""
       THEN /\ Except("open", ImageOpenRaises(fs[image_path]))
            /\ UNCHANGED img
       ELSE /\ img' = ImageOpen(fs[image_path])
            /\ pc' = "save"
            /\ UNCHANGED <<ret, rets, raisedAt>>
    /\ UNCHANGED <<dirExists, fs, fsStart, run, mainLocals, image_path, out,
                   exif_dict, image_hash, image_id, exif_bytes, calls, pre, ids>>

\* lines 47-49: img.save(image_path, "jpeg", quality=70, exif=exif_bytes);
\* return True, image_id
Save ==
    /\ pc = "save"
    /\ Access("save")
    /\ fs' = [fs EXCEPT ![image_path] = SaveResult(img, @, QUALITY, exif_bytes)]
    /\ IF SaveRaises(img, fs[image_path]) # ""
       THEN Except("save", SaveRaises(img, fs[image_path]))
       ELSE /\ ret' = <<TRUE, [id |-> image_id, err |-> ""]>>
            /\ rets' = Append(rets, ret')
            /\ pc' = "tally"
            /\ UNCHANGED raisedAt
    /\ UNCHANGED <<dirExists, fsStart, run, mainLocals, image_path, out,
                   injectLocals, calls, pre, ids>>

(***************************************************************************)
(* main()                                                                  *)
(***************************************************************************)

\* The directory check without its `return`.
CheckDirNoReturn ==
    /\ pc = "start"
    /\ out' = IF ~dirExists THEN Append(out, MsgNotFound) ELSE out
    /\ pc' = "glob"
    /\ UNCHANGED <<dirExists, fs, fsStart, run, mainLocals, image_path, injectLocals,
                   ret, calls, rets, accessLog, pre, raisedAt, ids>>

\* lines 56-58
CheckDir ==
    /\ pc = "start"
    /\ IF ~dirExists
       THEN /\ out' = Append(out, MsgNotFound)
            /\ pc' = "exit_missing"
       ELSE /\ out' = out
            /\ pc' = "glob"
    /\ UNCHANGED <<dirExists, fs, fsStart, run, mainLocals, image_path, injectLocals, ret,
                   calls, rets, accessLog, pre, raisedAt, ids>>

\* The empty-match check without its `return`.
GlobNoReturn ==
    /\ pc = "glob"
    /\ \E matches \in {glob(fs, PATTERN)} : jpg_files' = sorted(matches)
    /\ out' = Append(IF jpg_files' = <<>> THEN Append(out, MsgNoImages) ELSE out,
                     MsgFound(Len(jpg_files')))
    /\ pc' = "loop"
    /\ success' = 0
    /\ failed' = 0
    /\ UNCHANGED <<dirExists, fs, fsStart, run, idx, image_path, injectLocals, ret,
                   calls, rets, accessLog, pre, raisedAt, ids>>

\* lines 60-69
Glob ==
    /\ pc = "glob"
    /\ \E matches \in {glob(fs, PATTERN)} : jpg_files' = sorted(matches)
    /\ IF jpg_files' = <<>>
       THEN /\ out' = Append(out, MsgNoImages)
            /\ pc' = "exit_nomatch"
            /\ UNCHANGED <<success, failed>>
       ELSE /\ out' = Append(out, MsgFound(Len(jpg_files')))
            /\ success' = 0
            /\ failed' = 0
            /\ pc' = "loop"
    /\ UNCHANGED <<dirExists, fs, fsStart, run, idx, image_path, injectLocals, ret, calls,
                   rets, accessLog, pre, raisedAt, ids>>

\* lines 71-72: the next iteration of the loop calls inject_exif
Call ==
    /\ pc = "loop"
    /\ idx < Len(jpg_files)
    /\ idx' = idx + 1
    /\ image_path' = jpg_files[idx + 1]
    /\ calls' = Append(calls, jpg_files[idx + 1])
    /\ pre' = fs[jpg_files[idx + 1]]
    /\ raisedAt' = ""
    /\ pc' = "load"
    /\ UNCHANGED <<dirExists, fs, fsStart, run, jpg_files, success, failed, out,
                   injectLocals, ret, rets, accessLog, ids>>

\* The tally with the failure branch counting a success.
TallyMiscounting ==
    /\ pc = "tally"
    /\ success' = success + 1
    /\ failed' = failed
    /\ out' = Append(out, IF ret[1]
                          THEN MsgOk(idx, Len(jpg_files), image_path, ret[2])
                          ELSE MsgFail(idx, Len(jpg_files), image_path, ret[2]))
    /\ ids' = IF ret[1] THEN [ids EXCEPT ![image_path] = Append(@, ret[2].id)] ELSE ids
    /\ pc' = "loop"
    /\ UNCHANGED <<dirExists, fs, fsStart, run, jpg_files, idx, image_path,
                   injectLocals, ret, calls, rets, accessLog, pre, raisedAt>>

\* lines 74-79
Tally ==
    /\ pc = "tally"
    /\ IF ret[1]
       THEN /\ success' = success + 1
            /\ failed' = failed
            /\ out' = Append(out, MsgOk(idx, Len(jpg_files), image_path, ret[2]))
            /\ ids' = [ids EXCEPT ![image_path] = Append(@, ret[2].id)]
       ELSE /\ failed' = failed + 1
            /\ success' = success
            /\ out' = Append(out, MsgFail(idx, Len(jpg_files), image_path, ret[2]))
            /\ ids' = ids
    /\ pc' = "loop"
    /\ UNCHANGED <<dirExists, fs, fsStart, run, jpg_files, idx, image_path,
                   injectLocals, ret, calls, rets, accessLog, pre, raisedAt>>

\* lines 81-83
Summary ==
    /\ pc = "loop"
    /\ idx >= Len(jpg_files)
    /\ out' = Append(out, MsgSummary(success, Len(jpg_files), failed))
    /\ pc' = "exit_summary"
    /\ UNCHANGED <<dirExists, fs, fsStart, run, mainLocals, image_path, injectLocals, ret,
                   calls, rets, accessLog, pre, raisedAt, ids>>

\* lines 86-87: the script is run again on the directory as the last run left it
Rerun ==
    /\ pc \in Terminal
    /\ run < MaxRuns
    /\ run' = run + 1
    /\ pc' = "start"
    /\ jpg_files' = <<>>
    /\ idx' = 0
    /\ image_path' = <<>>
    /\ success' = 0
    /\ failed' = 0
    /\ out' = <<>>
    /\ exif_dict' = EmptyExifDict
    /\ image_hash' = <<>>
    /\ image_id' = <<>>
    /\ exif_bytes' = <<>>
    /\ img' = NoImage
    /\ ret' = NoRet
    /\ calls' = <<>>
    /\ rets' = <<>>
    /\ accessLog' = <<>>
    /\ pre' = ZeroFile("rw")
    /\ raisedAt' = ""
    /\ fsStart' = fs
    /\ UNCHANGED <<dirExists, fs, ids>>

Next ==
    \/ CheckDir
    \/ Glob
    \/ Call
    \/ Load
    \/ Hash
    \/ SetFields
    \/ Dump
    \/ Open
    \/ Save
    \/ Tally
    \/ Summary
    \/ Rerun

Spec == Init /\ [][Next]_vars

(***************************************************************************)
(* Properties                                                              *)
(***************************************************************************)

\* The matched files of the directory, independent of the driver's list.
Matched == {n \in DOMAIN fs : fnmatch(n, PATTERN)}

\* The per-file lines among the printed lines.
FileLines == SelectSeq(out, LAMBDA l : l.glyph \in {"check", "ballot"})

\* Calls of this run the loop has already tallied.
Processed == IF pc \in InjectSteps \cup {"tally"} THEN idx - 1 ELSE idx

OkCount(n) == Cardinality({i \in 1..n : rets[i][1]})

FailCount(n) == Cardinality({i \in 1..n : ~rets[i][1]})

\* C1: a failed inject_exif call never aborts the batch: no exception leaves
\* inject_exif, the failure is tallied and the loop goes on with the next file
\* (or, after the last file, with the summary), and a run that reaches the
\* summary has passed every matched file to inject_exif.
C1_FailureContained ==
    /\ [](pc # "aborted")
    /\ []((pc = "tally" /\ ~ret[1]) => ENABLED Tally)
    /\ [][(pc = "tally" /\ ~ret[1]) => (pc' = "loop" /\ idx' = idx)]_vars
    /\ [](pc = "loop" =>
            IF idx < Len(jpg_files) THEN ENABLED Call ELSE ENABLED Summary)
    /\ [][pc = "loop" =>
            IF idx < Cardinality(Matched)
            THEN pc' = "load" /\ image_path' = jpg_files[idx + 1]
            ELSE pc' = "exit_summary" /\ out'[Len(out')].glyph = "rule"]_vars
    /\ [](pc = "exit_summary" => calls = jpg_files /\ Len(rets) = Cardinality(Matched))

\* A run that reached the summary although a call failed and a later call
\* was still made and succeeded.
C1_Witness ==
    /\ pc = "exit_summary"
    /\ \E i \in 1..Len(rets) : \E j \in 1..Len(rets) : i < j /\ ~rets[i][1] /\ rets[j][1]

\* C2: at every point of the loop success and failed count exactly the calls
\* tallied so far that returned True and False, so they sum to the number of
\* files processed, and at the summary to the number of matched files.
C2_TallyInvariant ==
    pc \in InjectSteps \cup {"loop", "tally", "exit_summary"} =>
        /\ success = OkCount(Processed)
        /\ failed = FailCount(Processed)
        /\ success + failed = Processed
        /\ pc = "exit_summary" =>
              /\ success + failed = Cardinality(Matched)
              /\ out[Len(out)] = MsgSummary(OkCount(Len(rets)), Cardinality(Matched),
                                            FailCount(Len(rets)))

\* valid, zero-byte, valid: 2 successes and 1 failure.
C2_Witness ==
    /\ pc = "exit_summary"
    /\ Len(rets) = 3
    /\ rets[1][1] /\ ~rets[2][1] /\ rets[3][1]
    /\ rets[2][2].err = "UnidentifiedImageError"
    /\ success = 2 /\ failed = 1

\* Position of a path in the driver's list.
Pos(n) == CHOOSE k \in 1..Len(jpg_files) : jpg_files[k] = n

\* C3: inject_exif is called once per matched file, in ascending order of
\* name, the printed index is the file's position in that order, and every
\* file operation on a file precedes every operation on the files after it.
C3_SequentialOrder ==
    pc \notin {"start", "glob", "exit_missing"} =>
        /\ {jpg_files[k] : k \in 1..Len(jpg_files)} = Matched
        /\ \A i \in 1..Len(jpg_files) : \A j \in 1..Len(jpg_files) :
              i < j => LexLess(jpg_files[i], jpg_files[j])
        /\ Len(calls) = idx
        /\ calls = SubSeq(jpg_files, 1, idx)
        /\ pc = "exit_summary" => calls = jpg_files
        /\ Len(FileLines) = Processed
        /\ \A k \in 1..Len(FileLines) :
              /\ FileLines[k].idx = k
              /\ FileLines[k].name = jpg_files[k]
              /\ FileLines[k].total = Len(jpg_files)
        /\ \A i \in 1..Len(accessLog) :
              /\ accessLog[i][1] \in {calls[k] : k \in 1..Len(calls)}
              /\ \A j \in 1..Len(accessLog) :
                    i < j => Pos(accessLog[i][1]) <= Pos(accessLog[j][1])

\* Three files processed, each read and rewritten.
C3_Witness ==
    /\ pc = "exit_summary"
    /\ Len(calls) = 3
    /\ Len(accessLog) >= 10
    /\ Len(FileLines) = 3

\* C4: a call that fails before the save step (at the raw read, at the
\* serialization or at the image open) returns (False, detail) and leaves the
\* file exactly as it was when the call began.
C4_FailureBeforeSaveKeepsFile ==
    (pc = "tally" /\ raisedAt \in {"hash", "dump", "open"}) =>
        /\ ret[1] = FALSE
        /\ ret[2].err # ""
        /\ fs[image_path] = pre
        /\ Raw(fs[image_path]) = Raw(pre)

\* A call on a JPEG with metadata that failed at the serialization step.
C4_Witness ==
    /\ pc = "tally"
    /\ raisedAt = "dump"
    /\ ~ret[1]
    /\ pre.blob # <<>>

\* The fields the injector overwrites, as <<IFD index, tag>>.
Overwritten == {<<1, Copyright>>, <<1, Artist>>, <<2, UserComment>>}

\* Entry i of a serialized container is a parsable field the injector does
\* not overwrite.
KeptField(blob, i) == WellFormed(blob[i]) /\ <<blob[i][1], blob[i][2]>> \notin Overwritten

\* The container holds the field of entry e with the same value.
HoldsField(d, e) == e[2] \in DOMAIN d[IFDS[e[1]]] /\ d[IFDS[e[1]]][e[2]] = e[3]

\* The file's container holds exactly the three injected values for the
\* three overwritten fields.
HoldsInjected(d, id) ==
    /\ HoldsField(d, <<1, Copyright, BytesVal(encode(COPYRIGHT))>>)
    /\ HoldsField(d, <<1, Artist, BytesVal(encode(CREATOR))>>)
    /\ HoldsField(d, <<2, UserComment, BytesVal(encode(id))>>)

\* C5 as stated: after a successful call on a file whose container holds
\* fields, every field other than the three overwritten ones has the same
\* value in the written container.
C5_AllFieldsPreserved ==
    (pc = "tally" /\ ret[1] /\ pre.blob # <<>>) =>
        \A i \in 1..Len(pre.blob) :
            KeptField(pre.blob, i) =>
                HoldsField(ParseBlob(fs[image_path].blob), pre.blob[i])

\* C5 amended: the fields are preserved when piexif.load returned the
\* container; only the three fields are overwritten.
C5_FieldsPreservedWhenLoaded ==
    (pc = "tally" /\ ret[1] /\ pre.blob # <<>> /\ LoadRaises(pre) = "") =>
        /\ \A i \in 1..Len(pre.blob) :
              KeptField(pre.blob, i) =>
                  HoldsField(ParseBlob(fs[image_path].blob), pre.blob[i])
        /\ HoldsInjected(ParseBlob(fs[image_path].blob), ret[2].id)
        /\ Len(fs[image_path].blob)
             = Cardinality({<<pre.blob[i][1], pre.blob[i][2]>> : i \in 1..Len(pre.blob)}
                           \cup Overwritten)

\* A successful call on a file whose loaded container held an orientation
\* tag, an artist and a user comment.
C5_Witness ==
    /\ pc = "tally"
    /\ ret[1]
    /\ pre.blob = CameraBlob
    /\ LoadRaises(pre) = ""
    /\ \E i \in 1..Len(pre.blob) : KeptField(pre.blob, i)
    /\ \E i \in 1..Len(pre.blob) : ~KeptField(pre.blob, i)

HexLower == (48..57) \cup (97..102)

\* C6: on success the returned string and the written UserComment are the
\* same string: "sha256:" followed by the first 16 lowercase hex characters
\* of the digest of the bytes the file held when the call began.
C6_IdentifierIsHashOfOriginal ==
    (pc = "tally" /\ ret[1]) =>
        LET id == ret[2].id
            written == ParseBlob(fs[image_path].blob)["Exif"][UserComment]
        IN /\ id = ID_PREFIX \o SubSeq(hexdigest(Raw(pre)), 1, 16)
           /\ Len(id) = Len(ID_PREFIX) + 16
           /\ \A k \in (Len(ID_PREFIX) + 1)..Len(id) : id[k] \in HexLower
           /\ written = BytesVal(encode(id))
           /\ written.v = id

\* A successful call that changed the bytes of the file, so that the digest
\* of the bytes before and after the save differ.
C6_Witness ==
    /\ pc = "tally"
    /\ ret[1]
    /\ Raw(fs[image_path]) # Raw(pre)
    /\ hexdigest(Raw(fs[image_path])) # hexdigest(Raw(pre))

\* C7: a second successful call on the file a first successful call wrote
\* returns a different identifier: the bytes it hashes are the bytes the
\* first call wrote (they carry the first identifier), not the original ones.
C7_RerunChangesIdentifier ==
    /\ \A n \in DOMAIN ids : \A i \in 1..(Len(ids[n]) - 1) : ids[n][i] # ids[n][i + 1]
    /\ (pc = "tally" /\ ret[1] /\ ids[image_path] # <<>>) =>
          LET first == ids[image_path][Len(ids[image_path])]
          IN /\ ret[2].id # first
             /\ HoldsField(ParseBlob(pre.blob), <<2, UserComment, BytesVal(encode(first))>>)
             /\ pre.q = QUALITY

\* A file injected successfully in two runs.
C7_Witness == \E n \in DOMAIN ids : Len(ids[n]) >= 2

\* C8: with the directory missing the driver prints the one error and stops:
\* nothing is enumerated, inject_exif is not called, no file is accessed.
C8_MissingDirectory ==
    ~dirExists =>
        /\ pc \in {"start", "exit_missing"}
        /\ jpg_files = <<>>
        /\ calls = <<>>
        /\ accessLog = <<>>
        /\ fs = fsStart
        /\ out = IF pc = "start" THEN <<>> ELSE <<MsgNotFound>>

\* A run that ended on the missing directory.
C8_Witness == ~dirExists /\ pc = "exit_missing" /\ Len(out) = 1

\* C9: with the directory present and no name matching, inject_exif is not
\* called, no file is accessed or modified, and the one message printed is
\* not the missing-directory message.
C9_NoMatches ==
    (dirExists /\ Matched = {}) =>
        /\ pc \in {"start", "glob", "exit_nomatch"}
        /\ calls = <<>>
        /\ accessLog = <<>>
        /\ fs = fsStart
        /\ out = IF pc = "exit_nomatch" THEN <<MsgNoImages>> ELSE <<>>
        /\ pc = "exit_nomatch" => out[1] # MsgNotFound

\* A run that ended on a directory holding only files the pattern rejects.
C9_Witness ==
    /\ dirExists
    /\ DOMAIN fs # {}
    /\ Matched = {}
    /\ pc = "exit_nomatch"
    /\ Len(out) = 1

\* Steps a run has left at most: a measure every step of a run decreases.
Measure ==
    LET left == 10 * (Len(jpg_files) - idx)
    IN CASE pc = "start" -> 10 * Cardinality(DOMAIN fs) + 3
         [] pc = "glob" -> 10 * Cardinality(DOMAIN fs) + 2
         [] pc = "loop" -> left + 1
         [] pc = "tally" -> left + 2
         [] pc = "save" -> left + 3
         [] pc = "open" -> left + 4
         [] pc = "dump" -> left + 5
         [] pc = "set" -> left + 6
         [] pc = "hash" -> left + 7
         [] pc = "load" -> left + 8
         [] OTHER -> 0

EarlyExits == {"exit_missing", "exit_nomatch"}

\* C10: a run ends in exactly one of directory-missing, no-matches or
\* summary: it never aborts, never stops before a terminal state, every step
\* decreases the number of steps left, and a terminal state is left only by a
\* new run; the summary is reached only with the index advanced by one per
\* matched file, and the early exits without any file processed.
C10_RunStateMachine ==
    /\ [](pc # "aborted")
    /\ [](pc \notin Terminal => ENABLED Next)
    /\ [](Measure >= 0)
    /\ [][pc' # "start" => Measure' < Measure]_vars
    /\ [][(pc \in Terminal) => (pc' = "start")]_vars
    /\ [][idx' # idx =>
            \/ pc' = "start"
            \/ pc = "loop" /\ pc' = "load" /\ idx' = idx + 1]_vars
    /\ [](pc = "exit_summary" =>
            /\ dirExists /\ Matched # {}
            /\ idx = Cardinality(Matched)
            /\ calls = jpg_files
            /\ Len(rets) = idx)
    /\ [](pc \in EarlyExits => idx = 0 /\ calls = <<>> /\ rets = <<>>)
    /\ [](pc = "exit_missing" => ~dirExists)
    /\ [](pc = "exit_nomatch" => dirExists /\ Matched = {})

\* A run that reached the summary after three files.
C10_Witness == pc = "exit_summary" /\ idx = 3 /\ Len(rets) = 3

====
